---- MODULE Spec2Model ----
(***************************************************************************)
(* A model of buildkit's Linux OCI spec generators, capability probe and   *)
(* safe subpath resolver (executor/oci/spec_linux.go), and of the nested   *)
(* build operation (solver/llbsolver/ops/build.go).                        *)
(*                                                                         *)
(* The module holds several specifications over one set of variables; a    *)
(* specification leaves the variables of the other components at their     *)
(* idle values.                                                            *)
(*   SpecSub    the safe subpath resolver, sub()                           *)
(*   SpecProbe  the memoized capability probe, cgroupV2NamespaceSupported  *)
(*   SpecGen    each spec generator on its own, its mutators applied       *)
(*   SpecPipe   the generators in the orchestrator's order on one spec     *)
(*   SpecSubLive  SpecSub with its steps taken, for termination            *)
(*   SpecBuild  BuildOp.Exec (solver/llbsolver/ops/build.go)               *)
(***************************************************************************)
EXTENDS Integers, Sequences, FiniteSets, TLC

VARIABLES
    \* ---- sub(): locals of the call, the descriptor table, the mounts
    subPc,        \* position in sub(): "idle","rootpath","open","readlink","mount","release","done"
    m,            \* the parameter m (mount.Mount), rewritten in place
    subPathArg,   \* the parameter subPath
    root,         \* root := m.Source
    retries,      \* retries
    src,          \* src, the path fs.RootPath computed in this attempt
    fh,           \* fh: [fd, open] of the descriptor of this attempt, or NoFile
    fdPath,       \* fdPath
    resolved,     \* resolved, the path read back through fdPath
    lmMounts,     \* the mounts the local mounter lm was built with
    mounted,      \* the mounts performed: [source, target, fdOpen, nMounts, fd,
                  \* attempt, computed, reread, closes] as they were at lm.Mount
    subRet,       \* the returned (mount, release function, error)
    \* ---- sub(): history of the call
    attempts,     \* loop iterations started
    opens,        \* os.OpenFile calls
    readlinks,    \* os.Readlink calls
    mismatches,   \* attempts on which resolved # src
    mountCalls,   \* lm.Mount calls
    fhCloses,     \* fhCloses[i]: times the i-th opened descriptor was closed
    \* ---- cgroupV2NamespaceSupported(): the package variables and its callers
    onceDone,         \* cgroupNSOnce: the done flag of the sync.Once
    onceLock,         \* cgroupNSOnce: the caller holding its mutex, or NoCaller
    supportsCgroupNS, \* supportsCgroupNS
    probePc,          \* probePc[c]: position of caller c
    probeRet,         \* probeRet[c]: <<v>> when c's last completed call returned v, else <<>>
    callsLeft,        \* callsLeft[c]: calls c may still start
    \* ---- cgroupV2NamespaceSupported(): history
    probeRuns,        \* times the function passed to Do was started
    probeFinished,    \* times it ran to its end
    statNS,           \* outcome of os.Stat("/proc/self/ns/cgroup") in the last run
    statCtl,          \* outcome of os.Stat(".../cgroup.subtree_control") in the last run
    returned,         \* the values returned by completed calls
    \* ---- the spec generators and the assembly of one runtime spec
    req,          \* the request: mode, apparmorProfile, selinuxB, processMode,
                  \* idmap, ulimits, devs
    host,         \* the host: seccomp (cdseccomp.IsEnabled), apparmor
                  \* (apparmor.HostSupports), selinux (selinux.GetEnabled)
    plan,         \* the generators still to be called, in order
    opts,         \* the mutators (oci.SpecOpts) collected and not yet applied
    genRet,       \* [name, opts, err]: what the generator called last returned
    pipePc,       \* "idle", "generate", "apply", "done", "failed"
    s,            \* the runtime spec under assembly
    base,         \* the spec before the first mutator
    applied,      \* names of the mutators applied so far, in order
    applyErr,     \* the error of the mutator that failed, or NilErr
    cdiCalls,     \* calls the device-injection mutator made on the manager
    cdiEnv,       \* [refreshOK, injectOK]: how the manager answered them
    cdiAdded,     \* [Mounts, Env, Hooks] the manager injected into the spec
    \* ---- BuildOp.Exec: the operation, its arguments and locals
    execPc,       \* position in Exec: "idle","validate","refmount","lmmount",
                  \* "rootpath","open","read","solve","result","deferred",
                  \* "done","panicked"
    bop,          \* b.op: [Builder, hasDef (Inputs holds the LLB definition
                  \* input), Input (that input's index)]
    inputs,       \* inputs: what each solver.Result's Sys() is
    lm,           \* lm: the local mounter, or NilLm
    f,            \* f: whether the definition file is open
    retErr,       \* the named result retErr
    outputs,      \* the named result outputs
    \* ---- BuildOp.Exec: history of the call
    indexed,      \* the indexes inputs was indexed with
    refMounts,    \* ref.ImmutableRef.Mount calls
    lmMounted,    \* lm.Mount calls that succeeded
    unmounts,     \* lm.Unmount calls, by where they were made
    fOpens,       \* os.Open calls that succeeded
    fCloses,      \* f.Close calls
    solves        \* b.b.Solve calls

subVars == <<subPc, m, subPathArg, root, retries, src, fh, fdPath, resolved,
             lmMounts, mounted, subRet, attempts, opens, readlinks,
             mismatches, mountCalls, fhCloses>>

probeVars == <<onceDone, onceLock, supportsCgroupNS, probePc, probeRet,
               callsLeft, probeRuns, probeFinished, statNS, statCtl, returned>>

genVars == <<req, host, plan, opts, genRet, pipePc, s, base, applied,
             applyErr, cdiCalls, cdiEnv, cdiAdded>>

execVars == <<execPc, bop, inputs, lm, f, retErr, outputs, indexed, refMounts,
              lmMounted, unmounts, fOpens, fCloses, solves>>

vars == <<subVars, probeVars, genVars, execVars>>

(***************************************************************************)
(* Values shared by the components                                         *)
(***************************************************************************)

NilErr == <<"nil">>
NilFunc == <<"nil">>

(***************************************************************************)
(* sub(): the safe subpath resolver                                        *)
(***************************************************************************)

\* retries := 10
InitialRetries == 10

NoFile == [fd |-> 0, open |-> FALSE]
NoPath == "<none>"

\* mount.Mount{}: the zero value
ZeroMount == [Type |-> "", Source |-> "", Options |-> <<>>]

\* the mounts sub() may be handed
InMounts == { [Type |-> "bind", Source |-> "/tmp/root", Options |-> <<"rbind">>],
              [Type |-> "bind", Source |-> "/tmp/root", Options |-> <<"rbind", "ro">>] }
SubPaths == {"a/b"}

\* what fs.RootPath may compute for root and subPath on the current file system
SrcPaths == {"/tmp/root/a/b", "/tmp/root/x"}
\* what /proc/self/fd/<n> may point at: the computed path, or wherever a
\* swapped symlink led
ResolvedPaths == SrcPaths \cup {"/etc"}
\* descriptor numbers the kernel may hand out
FdNums == {3, 4}
\* temporary directories the local mounter may mount on
MountPoints == {"/tmp/buildkit-mount1", "/tmp/buildkit-mount2"}

\* strconv.Itoa on the descriptor numbers above
Itoa(n) == CASE n = 3 -> "3" [] n = 4 -> "4"

\* "/proc/self/fd/" + strconv.Itoa(int(fh.Fd()))
FdPathOf(n) == "/proc/self/fd/" \o Itoa(n)

\* a Close that is left out: the descriptor stays open
CloseFhForgotten(closes) == closes

\* fh.Close() on the descriptor opened last
CloseFh(closes) == [closes EXCEPT ![Len(closes)] = @ + 1]

\* errors.Errorf("unable to safely resolve subpath %s", subPath)
ErrUnsafe(p) == <<"unable to safely resolve subpath", p>>
ErrIO(what) == <<"io", what>>

\* return mount.Mount{}, nil, err
SubFail(e) == [m |-> ZeroMount, release |-> NilFunc, err |-> e]

SubIdle ==
    /\ subPc = "idle"
    /\ m = ZeroMount
    /\ subPathArg = NoPath
    /\ root = NoPath
    /\ retries = 0
    /\ src = NoPath
    /\ fh = NoFile
    /\ fdPath = NoPath
    /\ resolved = NoPath
    /\ lmMounts = <<>>
    /\ mounted = <<>>
    /\ subRet = SubFail(NilErr)
    /\ attempts = 0
    /\ opens = 0
    /\ readlinks = 0
    /\ mismatches = 0
    /\ mountCalls = 0
    /\ fhCloses = <<>>

\* entry of sub(m, subPath): retries := 10; root := m.Source
SubInit ==
    /\ subPc = "rootpath"
    /\ m \in InMounts
    /\ subPathArg \in SubPaths
    /\ root = m.Source
    /\ retries = InitialRetries
    /\ src = NoPath
    /\ fh = NoFile
    /\ fdPath = NoPath
    /\ resolved = NoPath
    /\ lmMounts = <<>>
    /\ mounted = <<>>
    /\ subRet = SubFail(NilErr)
    /\ attempts = 0
    /\ opens = 0
    /\ readlinks = 0
    /\ mismatches = 0
    /\ mountCalls = 0
    /\ fhCloses = <<>>

\* an I/O failure that goes round the loop again instead of returning
IOErrorContinues == "rootpath"

\* where an I/O failure of open or readlink leaves the call: it returns
IOErrorReturns == "done"

\* top of the loop: src, err := fs.RootPath(root, subPath)
SubRootPath ==
    /\ subPc = "rootpath"
    /\ attempts' = attempts + 1
    /\ \/ \E p \in SrcPaths :
             /\ src' = p
             /\ subPc' = "open"
             /\ UNCHANGED subRet
       \/ /\ subRet' = SubFail(ErrIO("rootpath"))
          /\ subPc' = "done"
          /\ UNCHANGED src
    /\ UNCHANGED <<m, subPathArg, root, retries, fh, fdPath, resolved, lmMounts,
                   mounted, opens, readlinks, mismatches, mountCalls, fhCloses>>

\* fh, err := os.OpenFile(src, O_PATH|O_CLOEXEC, 0); fdPath := ...
SubOpen ==
    /\ subPc = "open"
    /\ opens' = opens + 1
    /\ \/ \E n \in FdNums :
             /\ fh' = [fd |-> n, open |-> TRUE]
             /\ fdPath' = FdPathOf(n)
             /\ fhCloses' = Append(fhCloses, 0)
             /\ subPc' = "readlink"
             /\ UNCHANGED subRet
       \/ /\ subRet' = SubFail(ErrIO("open"))
          /\ subPc' = IOErrorReturns
          /\ UNCHANGED <<fh, fdPath, fhCloses>>
    /\ UNCHANGED <<m, subPathArg, root, retries, src, resolved, lmMounts,
                   mounted, attempts, readlinks, mismatches, mountCalls>>

\* a budget test that gives up one attempt early
BudgetExhaustedEarly(r) == r <= 1

\* a budget test that lets one attempt too many through
BudgetExhaustedLate(r) == r < 0

\* the budget test after retries--: if retries <= 0
BudgetExhausted(r) == r <= 0

\* a comparison with its sense inverted
PathsDifferInverted(p, q) == p = q

\* else if resolved != src
PathsDiffer(p, q) == p # q

\* resolved, err := os.Readlink(fdPath) and the comparison with src
SubReadlink ==
    /\ subPc = "readlink"
    /\ readlinks' = readlinks + 1
    /\ \/ \* err != nil: fh.Close(); return
          /\ fh' = [fh EXCEPT !.open = FALSE]
          /\ fhCloses' = CloseFh(fhCloses)
          /\ subRet' = SubFail(ErrIO("readlink"))
          /\ subPc' = IOErrorReturns
          /\ UNCHANGED <<resolved, retries, mismatches>>
       \/ \E p \in ResolvedPaths :
             /\ resolved' = p
             /\ mismatches' = mismatches + (IF p # src THEN 1 ELSE 0)
             /\ IF PathsDiffer(p, src)
                THEN \* retries--; budget test; fh.Close() on both branches
                     /\ retries' = retries - 1
                     /\ fh' = [fh EXCEPT !.open = FALSE]
                     /\ fhCloses' = CloseFh(fhCloses)
                     /\ IF BudgetExhausted(retries')
                        THEN /\ subRet' = SubFail(ErrUnsafe(subPathArg))
                             /\ subPc' = "done"
                        ELSE /\ subPc' = "rootpath"
                             /\ UNCHANGED subRet
                ELSE /\ subPc' = "mount"
                     /\ UNCHANGED <<retries, fh, fhCloses, subRet>>
    /\ UNCHANGED <<m, subPathArg, root, src, fdPath, lmMounts, mounted,
                   attempts, opens, mountCalls>>

\* a mount of the path computed by fs.RootPath instead of the descriptor's
WithLexicalSource(mnt, path) == [mnt EXCEPT !.Source = src]

\* m.Source = fdPath
WithFdSource(mnt, path) == [mnt EXCEPT !.Source = path]

\* m.Source = fdPath; lm := LocalMounterWithMounts([]mount.Mount{m}, ForceRemount());
\* mp, err := lm.Mount()
SubMount ==
    /\ subPc = "mount"
    /\ m' = WithFdSource(m, fdPath)
    /\ lmMounts' = <<m'>>
    /\ mountCalls' = mountCalls + 1
    /\ \/ \* err != nil: fh.Close(); return
          /\ fh' = [fh EXCEPT !.open = FALSE]
          /\ fhCloses' = CloseFh(fhCloses)
          /\ subRet' = SubFail(ErrIO("mount"))
          /\ subPc' = "done"
          /\ UNCHANGED mounted
       \/ \E mp \in MountPoints :
             /\ mounted' = Append(mounted, [source |-> m'.Source, target |-> mp,
                                            fdOpen |-> fh.open,
                                            nMounts |-> Len(lmMounts'),
                                            fd |-> fh.fd,
                                            attempt |-> attempts,
                                            computed |-> src,
                                            reread |-> resolved,
                                            closes |-> fhCloses])
             /\ subPc' = "release"
             /\ UNCHANGED <<fh, fhCloses, subRet>>
    /\ UNCHANGED <<subPathArg, root, retries, src, fdPath, resolved, attempts,
                   opens, readlinks, mismatches>>

\* a return that forgets to point the mount at the mount point
WithMountPointForgotten(mnt, mp) == mnt

\* m.Source = mp
WithMountPoint(mnt, mp) == [mnt EXCEPT !.Source = mp]

\* m.Source = mp; fh.Close(); return m, lm.Unmount, nil
SubRelease ==
    /\ subPc = "release"
    /\ LET mp == mounted[Len(mounted)].target
       IN  /\ m' = WithMountPoint(m, mp)
           /\ subRet' = [m |-> m', release |-> <<"unmount", mp>>, err |-> NilErr]
    /\ fh' = [fh EXCEPT !.open = FALSE]
    /\ fhCloses' = CloseFh(fhCloses)
    /\ subPc' = "done"
    /\ UNCHANGED <<subPathArg, root, retries, src, fdPath, resolved, lmMounts,
                   mounted, attempts, opens, readlinks, mismatches, mountCalls>>

SubNext ==
    \/ SubRootPath /\ UNCHANGED <<probeVars, genVars, execVars>>
    \/ SubOpen /\ UNCHANGED <<probeVars, genVars, execVars>>
    \/ SubReadlink /\ UNCHANGED <<probeVars, genVars, execVars>>
    \/ SubMount /\ UNCHANGED <<probeVars, genVars, execVars>>
    \/ SubRelease /\ UNCHANGED <<probeVars, genVars, execVars>>


(***************************************************************************)
(* cgroupV2NamespaceSupported(): the capability probe                      *)
(***************************************************************************)

\* concurrent callers, and the calls each makes
NCallers == 2
MaxCalls == 2
Callers == 1..NCallers
NoCaller == 0

\* what os.Stat may answer: the file is there, ENOENT, or another error
StatOutcomes == {"exists", "notexist", "eacces"}
NotCalled == "notcalled"

\* os.IsNotExist(err)
IsNotExist(o) == o = "notexist"

ProbeIdle ==
    /\ onceDone = 0
    /\ onceLock = NoCaller
    /\ supportsCgroupNS = FALSE
    /\ probePc = [c \in {} |-> "idle"]
    /\ probeRet = [c \in {} |-> <<>>]
    /\ callsLeft = [c \in {} |-> 0]
    /\ probeRuns = 0
    /\ probeFinished = 0
    /\ statNS = NotCalled
    /\ statCtl = NotCalled
    /\ returned = {}

\* process start: var cgroupNSOnce sync.Once; var supportsCgroupNS bool
ProbeInit ==
    /\ onceDone = 0
    /\ onceLock = NoCaller
    /\ supportsCgroupNS = FALSE
    /\ probePc = [c \in Callers |-> "idle"]
    /\ probeRet = [c \in Callers |-> <<>>]
    /\ callsLeft = [c \in Callers |-> MaxCalls]
    /\ probeRuns = 0
    /\ probeFinished = 0
    /\ statNS = NotCalled
    /\ statCtl = NotCalled
    /\ returned = {}

\* the fast path of Once.Do: run the slow path only while done is 0
OnceFastPath(done) == done # 0

\* a slow path that does not look at done again once it holds the mutex
OnceMustRunUnchecked(done) == TRUE

\* the slow path of Once.Do, under the mutex: run f only if done is still 0
OnceMustRun(done) == done = 0

\* c calls cgroupV2NamespaceSupported(): cgroupNSOnce.Do loads done
ProbeCall(c) ==
    /\ probePc[c] = "idle"
    /\ callsLeft[c] > 0
    /\ callsLeft' = [callsLeft EXCEPT ![c] = @ - 1]
    /\ probePc' = [probePc EXCEPT ![c] = IF OnceFastPath(onceDone) THEN "return" ELSE "lock"]
    /\ UNCHANGED <<onceDone, onceLock, supportsCgroupNS, probeRet, probeRuns,
                   probeFinished, statNS, statCtl, returned>>

\* Once.Do, slow path: o.m.Lock(), then the second look at done
OnceLock(c) ==
    /\ probePc[c] = "lock"
    /\ onceLock = NoCaller
    /\ onceLock' = c
    /\ IF OnceMustRun(onceDone)
       THEN /\ probePc' = [probePc EXCEPT ![c] = "statNS"]
            /\ probeRuns' = probeRuns + 1
            /\ statNS' = NotCalled
            /\ statCtl' = NotCalled
       ELSE /\ probePc' = [probePc EXCEPT ![c] = "unlock"]
            /\ UNCHANGED <<probeRuns, statNS, statCtl>>
    /\ UNCHANGED <<onceDone, supportsCgroupNS, probeRet, callsLeft,
                   probeFinished, returned>>

\* if _, err := os.Stat("/proc/self/ns/cgroup"); os.IsNotExist(err) { return }
ProbeStatNS(c) ==
    /\ probePc[c] = "statNS"
    /\ \E o \in StatOutcomes :
          /\ statNS' = o
          /\ probePc' = [probePc EXCEPT ![c] = IF IsNotExist(o) THEN "storeDone" ELSE "statCtl"]
    /\ UNCHANGED <<onceDone, onceLock, supportsCgroupNS, probeRet, callsLeft,
                   probeRuns, probeFinished, statCtl, returned>>

\* if _, err := os.Stat("/sys/fs/cgroup/cgroup.subtree_control");
\* os.IsNotExist(err) { return }; supportsCgroupNS = true
ProbeStatCtl(c) ==
    /\ probePc[c] = "statCtl"
    /\ \E o \in StatOutcomes :
          /\ statCtl' = o
          /\ supportsCgroupNS' = IF IsNotExist(o) THEN supportsCgroupNS ELSE TRUE
    /\ probePc' = [probePc EXCEPT ![c] = "storeDone"]
    /\ UNCHANGED <<onceDone, onceLock, probeRet, callsLeft, probeRuns,
                   probeFinished, statNS, returned>>

\* Once.Do, slow path: the deferred o.done.Store(1) after f returned
OnceStoreDone(c) ==
    /\ probePc[c] = "storeDone"
    /\ onceDone' = 1
    /\ probeFinished' = probeFinished + 1
    /\ probePc' = [probePc EXCEPT ![c] = "unlock"]
    /\ UNCHANGED <<onceLock, supportsCgroupNS, probeRet, callsLeft, probeRuns,
                   statNS, statCtl, returned>>

\* Once.Do, slow path: the deferred o.m.Unlock()
OnceUnlock(c) ==
    /\ probePc[c] = "unlock"
    /\ onceLock = c
    /\ onceLock' = NoCaller
    /\ probePc' = [probePc EXCEPT ![c] = "return"]
    /\ UNCHANGED <<onceDone, supportsCgroupNS, probeRet, callsLeft, probeRuns,
                   probeFinished, statNS, statCtl, returned>>

\* return supportsCgroupNS
ProbeReturn(c) ==
    /\ probePc[c] = "return"
    /\ probeRet' = [probeRet EXCEPT ![c] = <<supportsCgroupNS>>]
    /\ returned' = returned \cup {supportsCgroupNS}
    /\ probePc' = [probePc EXCEPT ![c] = "idle"]
    /\ UNCHANGED <<onceDone, onceLock, supportsCgroupNS, callsLeft, probeRuns,
                   probeFinished, statNS, statCtl>>

ProbeNext ==
    \E c \in Callers :
        \/ ProbeCall(c) /\ UNCHANGED <<subVars, genVars, execVars>>
        \/ OnceLock(c) /\ UNCHANGED <<subVars, genVars, execVars>>
        \/ ProbeStatNS(c) /\ UNCHANGED <<subVars, genVars, execVars>>
        \/ ProbeStatCtl(c) /\ UNCHANGED <<subVars, genVars, execVars>>
        \/ OnceStoreDone(c) /\ UNCHANGED <<subVars, genVars, execVars>>
        \/ OnceUnlock(c) /\ UNCHANGED <<subVars, genVars, execVars>>
        \/ ProbeReturn(c) /\ UNCHANGED <<subVars, genVars, execVars>>

(***************************************************************************)
(* The runtime spec and its mutators                                       *)
(***************************************************************************)

\* A path is the sequence of its components: /proc/sys is <<"proc", "sys">>.
Proc == <<"proc">>
Run == <<"run">>
SysFsCgroup == <<"sys", "fs", "cgroup">>

\* hasPrefix(p, prefixDir): p is prefixDir or lies under it
HasPrefix(p, prefixDir) ==
    /\ Len(prefixDir) <= Len(p)
    /\ SubSeq(p, 1, Len(prefixDir)) = prefixDir

\* specs.Mount
MkMount(dest, type, source, options) ==
    [Destination |-> dest, Type |-> type, Source |-> source, Options |-> options]

\* all sequences over S of length at most n
SeqsUpTo(S, n) == UNION { [1..k -> S] : k \in 0..n }

\* a mutator (oci.SpecOpts): its constructor and what it closes over
Mut(op, arg) == [op |-> op, arg |-> arg]

\* the result of applying a mutator: the spec, the error, the calls it made
\* on the device manager
Applied(spec, err) == [s |-> spec, err |-> err, calls |-> <<>>]

\* removeMountsWithPrefix(mounts, prefixDir)
RemoveMountsWithPrefix(mounts, prefixDir) ==
    SelectSeq(mounts, LAMBDA mt : ~HasPrefix(mt.Destination, prefixDir))

\* a filter loop that never appends: every path is dropped
PathsOutsideNone(paths, prefixDir) == <<>>

\* the loops of withBoundProc over MaskedPaths and ReadonlyPaths
PathsOutside(paths, prefixDir) ==
    SelectSeq(paths, LAMBDA q : ~HasPrefix(q, prefixDir))

\* withBoundProc: procMount
ProcMount == MkMount(Proc, "bind", "/proc", <<"rbind">>)

\* a rebind that puts the /proc mount behind the mounts it kept
WithBoundProcAppended(spec) ==
    [spec EXCEPT !.Mounts = Append(RemoveMountsWithPrefix(@, Proc), ProcMount),
                 !.MaskedPaths = PathsOutside(@, Proc),
                 !.ReadonlyPaths = PathsOutside(@, Proc)]

\* withBoundProc()
WithBoundProc(spec) ==
    [spec EXCEPT !.Mounts = <<ProcMount>> \o RemoveMountsWithPrefix(@, Proc),
                 !.MaskedPaths = PathsOutside(@, Proc),
                 !.ReadonlyPaths = PathsOutside(@, Proc)]

\* oci.WithHostNamespace(ns): the namespace is removed from the spec's list
WithHostNamespace(spec, ns) ==
    [spec EXCEPT !.Namespaces = SelectSeq(@, LAMBDA n : n # ns)]

\* withRemovedMount(dest)
WithRemovedMount(spec, dest) ==
    [spec EXCEPT !.Mounts = RemoveMountsWithPrefix(@, dest)]

\* withROBind(src, dest)
WithROBind(spec, source, dest) ==
    [spec EXCEPT !.Mounts =
        Append(@, MkMount(dest, "bind", source,
                          <<"nosuid", "noexec", "nodev", "rbind", "ro">>))]

\* withCGroup()
WithCGroup(spec) ==
    [spec EXCEPT !.Mounts =
        Append(@, MkMount(SysFsCgroup, "cgroup", "cgroup",
                          <<"ro", "nosuid", "noexec", "nodev">>))]

\* oci.WithWriteableCgroupfs, oci.WithWriteableSysfs: the "ro" option of the
\* mounts of one type becomes "rw"
WithWriteable(spec, type) ==
    [spec EXCEPT !.Mounts =
        [i \in DOMAIN @ |->
            IF @[i].Type = type
            THEN [@[i] EXCEPT !.Options =
                     [j \in DOMAIN @ |-> IF @[j] = "ro" THEN "rw" ELSE @[j]]]
            ELSE @[i]]]

\* security.WithInsecureSpec(): all capabilities, nothing masked or read-only
WithInsecureSpec(spec) ==
    [spec EXCEPT !.Capabilities = "all",
                 !.MaskedPaths = <<>>,
                 !.ReadonlyPaths = <<>>]

\* the label mutator of generateSecurityOpts:
\* s.Process.SelinuxLabel, s.Linux.MountLabel, err = label.InitLabels(options)
\* when selinuxB; label.InitLabels gives empty labels for "disable"
WithSelinuxLabels(spec, selinuxB, options, labelsOK) ==
    IF ~selinuxB THEN Applied(spec, NilErr)
    ELSE IF options = <<"disable">>
         THEN Applied([spec EXCEPT !.SelinuxLabel = "", !.MountLabel = ""], NilErr)
    ELSE IF labelsOK
         THEN Applied([spec EXCEPT !.SelinuxLabel = "process_label",
                                   !.MountLabel = "mount_label"], NilErr)
    ELSE Applied([spec EXCEPT !.SelinuxLabel = "", !.MountLabel = ""],
                 <<"InitLabels failed">>)

\* withDefaultProfile(): s.Linux.Seccomp, err = seccomp.GetDefaultProfile(s)
WithDefaultProfile(spec, seccompOK) ==
    IF seccompOK
    THEN Applied([spec EXCEPT !.Seccomp = "default"], NilErr)
    ELSE Applied([spec EXCEPT !.Seccomp = ""], <<"GetDefaultProfile failed">>)

\* oci.WithApparmorProfile(profile)
WithApparmorProfile(spec, profile) ==
    [spec EXCEPT !.ApparmorProfile = profile]

\* oci.WithUserNamespace(uidMap, gidMap)
WithUserNamespace(spec, uidMap, gidMap) ==
    [spec EXCEPT !.UIDMappings = uidMap,
                 !.GIDMappings = gidMap,
                 !.Namespaces = Append(SelectSeq(@, LAMBDA n : n # "user"), "user")]

\* the mutator of generateRlimitOpts: s.Process.Rlimits = rlimits
WithRlimits(spec, rlimits) == [spec EXCEPT !.Rlimits = rlimits]

\* the devices the manager knows, and the container edits of each
Devices == {"vendor.com/gpu=0", "vendor.com/net=1"}
CDIEdits(dev) ==
    IF dev = "vendor.com/gpu=0"
    THEN [Mounts |-> <<MkMount(<<"proc", "driver", "gpu">>, "bind",
                               "/proc/driver/gpu", <<"ro", "rbind">>)>>,
          Env |-> <<"GPU_VISIBLE=0">>,
          Hooks |-> <<"createContainer:gpu-hook">>]
    ELSE [Mounts |-> <<MkMount(<<"dev", "net1">>, "bind", "/dev/net1", <<"rbind">>)>>,
          Env |-> <<"NET_DEVICE=1">>,
          Hooks |-> <<>>]

\* the edits of a list of devices, in order
RECURSIVE EditsOf(_)
EditsOf(devs) ==
    IF devs = <<>> THEN [Mounts |-> <<>>, Env |-> <<>>, Hooks |-> <<>>]
    ELSE LET e == CDIEdits(Head(devs))
             r == EditsOf(Tail(devs))
         IN  [Mounts |-> e.Mounts \o r.Mounts,
              Env |-> e.Env \o r.Env,
              Hooks |-> e.Hooks \o r.Hooks]

NoEdits == [Mounts |-> <<>>, Env |-> <<>>, Hooks |-> <<>>]

\* manager.InjectDevices(s, devs...): the edits are added to the spec
InjectDevices(spec, devs) ==
    LET e == EditsOf(devs)
    IN  [spec EXCEPT !.Mounts = @ \o e.Mounts,
                     !.Env = @ \o e.Env,
                     !.Hooks = @ \o e.Hooks]

\* errors.Wrapf(err, "CDI device injection failed")
ErrInject == <<"CDI device injection failed", "InjectDevices failed">>

\* a mutator that gives up when the registry refresh fails
WithCDIDevicesRefreshFatal(spec, devs, env) ==
    IF ~env.refreshOK
    THEN [s |-> spec, err |-> <<"CDI registry refresh failed">>, calls |-> <<"Refresh">>]
    ELSE [s |-> IF env.injectOK THEN InjectDevices(spec, devs) ELSE spec,
          err |-> IF env.injectOK THEN NilErr ELSE ErrInject,
          calls |-> <<"Refresh", "InjectDevices">>]

\* a mutator that injects into a copy of the spec
WithCDIDevicesOnCopy(spec, devs, env) ==
    [s |-> spec,
     err |-> IF env.injectOK THEN NilErr ELSE ErrInject,
     calls |-> <<"Refresh", "InjectDevices">>]

\* withCDIDevices(devs): manager.Refresh(), its error only logged, then
\* manager.InjectDevices(s, devs...), its error returned wrapped
WithCDIDevices(spec, devs, env) ==
    [s |-> IF env.injectOK THEN InjectDevices(spec, devs) ELSE spec,
     err |-> IF env.injectOK THEN NilErr ELSE ErrInject,
     calls |-> <<"Refresh", "InjectDevices">>]

\* how the collaborators of a mutator may answer
AllOK == [labelsOK |-> TRUE, seccompOK |-> TRUE, refreshOK |-> TRUE, injectOK |-> TRUE]
MutatorEnvs(op) ==
    IF op = "selinuxLabels" THEN { [AllOK EXCEPT !.labelsOK = b] : b \in BOOLEAN }
    ELSE IF op = "withDefaultProfile" THEN { [AllOK EXCEPT !.seccompOK = b] : b \in BOOLEAN }
    ELSE IF op = "withCDIDevices"
         THEN { [AllOK EXCEPT !.refreshOK = a, !.injectOK = b] : a, b \in BOOLEAN }
    ELSE {AllOK}

\* one mutator applied to the spec
ApplyMutator(mu, spec, env) ==
    CASE mu.op = "withRemovedMount" -> Applied(WithRemovedMount(spec, mu.arg), NilErr)
      [] mu.op = "withROBind" -> Applied(WithROBind(spec, mu.arg[1], mu.arg[2]), NilErr)
      [] mu.op = "withCGroup" -> Applied(WithCGroup(spec), NilErr)
      [] mu.op = "WithInsecureSpec" -> Applied(WithInsecureSpec(spec), NilErr)
      [] mu.op = "WithWriteableCgroupfs" -> Applied(WithWriteable(spec, "cgroup"), NilErr)
      [] mu.op = "WithWriteableSysfs" -> Applied(WithWriteable(spec, "sysfs"), NilErr)
      [] mu.op = "selinuxLabels" ->
            WithSelinuxLabels(spec, mu.arg[1], mu.arg[2], env.labelsOK)
      [] mu.op = "withDefaultProfile" -> WithDefaultProfile(spec, env.seccompOK)
      [] mu.op = "WithApparmorProfile" -> Applied(WithApparmorProfile(spec, mu.arg), NilErr)
      [] mu.op = "WithHostNamespace" -> Applied(WithHostNamespace(spec, mu.arg), NilErr)
      [] mu.op = "withBoundProc" -> Applied(WithBoundProc(spec), NilErr)
      [] mu.op = "WithUserNamespace" ->
            Applied(WithUserNamespace(spec, mu.arg[1], mu.arg[2]), NilErr)
      [] mu.op = "rlimits" -> Applied(WithRlimits(spec, mu.arg), NilErr)
      [] mu.op = "withCDIDevices" -> WithCDIDevices(spec, mu.arg, env)

(***************************************************************************)
(* The generators                                                          *)
(***************************************************************************)

NoOpts == [opts |-> <<>>, err |-> NilErr]

\* generateMountOpts(resolvConf, hostsFile)
GenerateMountOpts(resolvConf, hostsFile) ==
    [opts |-> << Mut("withRemovedMount", Run),
                 Mut("withROBind", <<resolvConf, <<"etc", "resolv.conf">>>>),
                 Mut("withROBind", <<hostsFile, <<"etc", "hosts">>>>),
                 Mut("withCGroup", <<>>) >>,
     err |-> NilErr]

\* pb.SecurityMode: SANDBOX, INSECURE, and any other value
SecurityModes == {"SANDBOX", "INSECURE", "UNSPECIFIED"}

ErrSelinux == <<"selinux is not available">>
ErrApparmor(profile) ==
    <<"AppArmor is not supported on this host, but the profile '", profile,
      "' was specified">>

\* a generator that never looks at the host's SELinux state
SelinuxUnavailableIgnored(selinuxB, h) == FALSE

\* if selinuxB && !selinux.GetEnabled()
SelinuxUnavailable(selinuxB, h) == selinuxB /\ ~h.selinux

\* an AppArmor failure that hands back the mutators collected so far
ApparmorUnsupportedKeepsOpts(collected, profile) ==
    [opts |-> collected, err |-> ErrApparmor(profile)]

\* return nil, errors.New("AppArmor is not supported on this host, ...")
ApparmorUnsupported(collected, profile) ==
    [opts |-> <<>>, err |-> ErrApparmor(profile)]

\* a seccomp branch that attaches the default profile on every host
SeccompOptsAlways(h) == <<Mut("withDefaultProfile", <<>>)>>

\* if cdseccomp.IsEnabled() { opts = append(opts, withDefaultProfile()) }
SeccompOpts(h) ==
    IF h.seccomp THEN <<Mut("withDefaultProfile", <<>>)>> ELSE <<>>

\* a switch whose sandbox arm is taken by every mode but INSECURE
IsSandboxOrDefault(mode) == mode # "INSECURE"

\* case pb.SecurityMode_SANDBOX:
IsSandbox(mode) == mode = "SANDBOX"

\* generateSecurityOpts(mode, apparmorProfile, selinuxB) on host h
GenerateSecurityOpts(mode, apparmorProfile, selinuxB, h) ==
    IF SelinuxUnavailable(selinuxB, h) THEN [opts |-> <<>>, err |-> ErrSelinux]
    ELSE IF mode = "INSECURE"
    THEN [opts |-> << Mut("WithInsecureSpec", <<>>),
                      Mut("WithWriteableCgroupfs", <<>>),
                      Mut("WithWriteableSysfs", <<>>),
                      Mut("selinuxLabels", <<selinuxB, <<"disable">>>>) >>,
          err |-> NilErr]
    ELSE IF IsSandbox(mode)
    THEN LET seccompOpts == SeccompOpts(h)
         IN  IF apparmorProfile # "" /\ ~h.apparmor
             THEN ApparmorUnsupported(seccompOpts, apparmorProfile)
             ELSE LET profOpts ==
                          IF apparmorProfile # ""
                          THEN Append(seccompOpts,
                                      Mut("WithApparmorProfile", apparmorProfile))
                          ELSE seccompOpts
                  IN  [opts |-> Append(profOpts, Mut("selinuxLabels", <<selinuxB, <<>>>>)),
                       err |-> NilErr]
    ELSE NoOpts

\* ProcessMode
ProcessModes == {"ProcessSandbox", "NoProcessSandbox"}

\* generateProcessModeOpts(mode)
GenerateProcessModeOpts(mode) ==
    IF mode = "NoProcessSandbox"
    THEN [opts |-> << Mut("WithHostNamespace", "pid"), Mut("withBoundProc", <<>>) >>,
          err |-> NilErr]
    ELSE NoOpts

\* uint32(v), uint64(v) of a signed v: <<k, v>> stands for k * 2^width + v,
\* so a negative v wraps once and the others are kept
ToUnsigned(v) == <<IF v < 0 THEN 1 ELSE 0, v>>

\* specMapping(s)
SpecMapping(items) ==
    [i \in DOMAIN items |->
        [HostID |-> ToUnsigned(items[i].ParentID),
         ContainerID |-> ToUnsigned(items[i].ID),
         Size |-> ToUnsigned(items[i].Count)]]

\* *user.IdentityMapping: nil, or the UID and GID maps
NilIdmap == [isNil |-> TRUE, UIDMaps |-> <<>>, GIDMaps |-> <<>>]
SomeIdmap == [isNil |-> FALSE,
              UIDMaps |-> <<[ID |-> 0, ParentID |-> 100000, Count |-> 65536]>>,
              GIDMaps |-> <<[ID |-> 0, ParentID |-> 200000, Count |-> 65536]>>]

\* generateIDmapOpts(idmap)
GenerateIDmapOpts(idmap) ==
    IF idmap.isNil THEN NoOpts
    ELSE [opts |-> << Mut("WithUserNamespace",
                          <<SpecMapping(idmap.UIDMaps), SpecMapping(idmap.GIDMaps)>>) >>,
          err |-> NilErr]

\* *pb.Ulimit: nil, or {Name, Soft, Hard}
NilUlimit == [isNil |-> TRUE, Name |-> "", Soft |-> 0, Hard |-> 0]
Ulimit(name, soft, hard) == [isNil |-> FALSE, Name |-> name, Soft |-> soft, Hard |-> hard]
SomeUlimits == { Ulimit("nofile", 1024, 2048), Ulimit("Nproc", -1, -1) }

\* strings.ToUpper(u.Name)
ToUpper(name) ==
    CASE name = "nofile" -> "NOFILE"
      [] name = "Nproc" -> "NPROC"
      [] OTHER -> name

\* specs.POSIXRlimit{Type: fmt.Sprintf("RLIMIT_%s", ...), Hard: ..., Soft: ...}
RlimitOf(u) ==
    [Type |-> <<"RLIMIT_", ToUpper(u.Name)>>,
     Hard |-> ToUnsigned(u.Hard),
     Soft |-> ToUnsigned(u.Soft)]

\* the loop of generateRlimitOpts: nil entries are skipped
RECURSIVE RlimitsOf(_)
RlimitsOf(ulimits) ==
    IF ulimits = <<>> THEN <<>>
    ELSE IF Head(ulimits).isNil THEN RlimitsOf(Tail(ulimits))
    ELSE <<RlimitOf(Head(ulimits))>> \o RlimitsOf(Tail(ulimits))

\* a generator without the test for an empty list
GenerateRlimitOptsAlways(ulimits) ==
    [opts |-> << Mut("rlimits", RlimitsOf(ulimits)) >>, err |-> NilErr]

\* generateRlimitOpts(ulimits)
GenerateRlimitOpts(ulimits) ==
    IF Len(ulimits) = 0 THEN NoOpts
    ELSE [opts |-> << Mut("rlimits", RlimitsOf(ulimits)) >>, err |-> NilErr]

\* generateCDIOpts(manager, devs)
GenerateCDIOpts(devs) ==
    IF Len(devs) = 0 THEN NoOpts
    ELSE [opts |-> << Mut("withCDIDevices", devs) >>, err |-> NilErr]

(***************************************************************************)
(* The assembly: the generators are called in order and their mutators     *)
(* collected; a generator's error ends the assembly; the collected         *)
(* mutators are then applied to the spec in order, up to the first error.  *)
(***************************************************************************)

\* the order in which the orchestrator calls the generators
PipelinePlan == <<"mount", "security", "process", "idmap", "rlimit", "cdi">>

\* the generator `name` returned ret
Collect(name, ret) ==
    /\ pipePc = "generate"
    /\ plan # <<>>
    /\ Head(plan) = name
    /\ genRet' = [name |-> name, opts |-> ret.opts, err |-> ret.err]
    /\ IF ret.err # NilErr
       THEN /\ pipePc' = "failed"
            /\ UNCHANGED <<opts, plan>>
       ELSE /\ opts' = opts \o ret.opts
            /\ plan' = Tail(plan)
            /\ pipePc' = IF plan' # <<>> THEN "generate"
                         ELSE IF opts' = <<>> THEN "done" ELSE "apply"
    /\ UNCHANGED <<req, host, s, base, applied, applyErr, cdiCalls, cdiEnv, cdiAdded>>

GenMount == Collect("mount", GenerateMountOpts(req.resolvConf, req.hostsFile))

GenSecurity ==
    Collect("security",
            GenerateSecurityOpts(req.mode, req.apparmorProfile, req.selinuxB, host))

GenProcessMode == Collect("process", GenerateProcessModeOpts(req.processMode))

GenIDmap == Collect("idmap", GenerateIDmapOpts(req.idmap))

GenRlimit == Collect("rlimit", GenerateRlimitOpts(req.ulimits))

GenCDI == Collect("cdi", GenerateCDIOpts(req.devs))

\* the next collected mutator is applied to the spec
ApplyOpt ==
    /\ pipePc = "apply"
    /\ opts # <<>>
    /\ \E env \in MutatorEnvs(Head(opts).op) :
          LET mu == Head(opts)
              r == ApplyMutator(mu, s, env)
              isCDI == mu.op = "withCDIDevices"
          IN  /\ s' = r.s
              /\ applied' = Append(applied, mu.op)
              /\ applyErr' = r.err
              /\ cdiCalls' = IF isCDI THEN r.calls ELSE cdiCalls
              /\ cdiEnv' = IF isCDI THEN [refreshOK |-> env.refreshOK,
                                          injectOK |-> env.injectOK]
                           ELSE cdiEnv
              /\ cdiAdded' = IF isCDI /\ env.injectOK THEN EditsOf(mu.arg) ELSE cdiAdded
              /\ IF r.err # NilErr
                 THEN /\ pipePc' = "failed"
                      /\ UNCHANGED opts
                 ELSE /\ opts' = Tail(opts)
                      /\ pipePc' = IF opts' = <<>> THEN "done" ELSE "apply"
    /\ UNCHANGED <<req, host, plan, genRet, base>>

GenNext ==
    \/ GenMount /\ UNCHANGED <<subVars, probeVars, execVars>>
    \/ GenSecurity /\ UNCHANGED <<subVars, probeVars, execVars>>
    \/ GenProcessMode /\ UNCHANGED <<subVars, probeVars, execVars>>
    \/ GenIDmap /\ UNCHANGED <<subVars, probeVars, execVars>>
    \/ GenRlimit /\ UNCHANGED <<subVars, probeVars, execVars>>
    \/ GenCDI /\ UNCHANGED <<subVars, probeVars, execVars>>
    \/ ApplyOpt /\ UNCHANGED <<subVars, probeVars, execVars>>

(***************************************************************************)
(* Requests, hosts and specs the generators are run on                     *)
(***************************************************************************)

MaxMounts == 3
MaxPaths == 2
MaxUlimits == 2
MaxDevs == 2

Hosts == [seccomp : BOOLEAN, apparmor : BOOLEAN, selinux : BOOLEAN]
FullHost == [seccomp |-> TRUE, apparmor |-> TRUE, selinux |-> TRUE]
Profiles == {"", "bk-profile"}

DefaultReq ==
    [mode |-> "SANDBOX", apparmorProfile |-> "", selinuxB |-> FALSE,
     processMode |-> "ProcessSandbox", idmap |-> NilIdmap, ulimits |-> <<>>,
     devs |-> <<>>, resolvConf |-> "/var/resolv.conf", hostsFile |-> "/var/hosts"]

\* the spec the runtime library starts from
DefaultSpec ==
    [Mounts |-> << MkMount(Proc, "proc", "proc", <<"nosuid", "noexec", "nodev">>),
                   MkMount(<<"sys">>, "sysfs", "sysfs", <<"nosuid", "noexec", "nodev", "ro">>),
                   MkMount(Run, "tmpfs", "tmpfs", <<"nosuid", "nodev">>) >>,
     Env |-> <<"PATH=/usr/local/bin:/usr/bin">>,
     Hooks |-> <<>>,
     Rlimits |-> <<[Type |-> <<"RLIMIT_", "NOFILE">>,
                    Hard |-> ToUnsigned(1024), Soft |-> ToUnsigned(1024)]>>,
     SelinuxLabel |-> "",
     MountLabel |-> "",
     ApparmorProfile |-> "",
     Seccomp |-> "",
     Capabilities |-> "default",
     MaskedPaths |-> << <<"proc", "kcore">>, <<"sys", "firmware">> >>,
     ReadonlyPaths |-> << <<"proc", "sys">> >>,
     Namespaces |-> <<"pid", "ipc", "uts", "mount", "network">>,
     UIDMappings |-> <<>>,
     GIDMappings |-> <<>>]

\* mounts and paths an arbitrary spec may hold
SomeMounts ==
    { MkMount(Proc, "proc", "proc", <<"nosuid">>),
      MkMount(<<"proc", "sys">>, "bind", "/proc/sys", <<"ro">>),
      MkMount(<<"sys">>, "sysfs", "sysfs", <<"ro">>),
      MkMount(<<"procfs">>, "bind", "/srv/procfs", <<"rbind">>) }
SomePaths == { <<"proc", "kcore">>, <<"sys", "firmware">> }
ArbitrarySpecs ==
    { [DefaultSpec EXCEPT !.Mounts = ms, !.MaskedPaths = mp, !.ReadonlyPaths = rp] :
        ms \in SeqsUpTo(SomeMounts, MaxMounts),
        mp \in SeqsUpTo(SomePaths, MaxPaths),
        rp \in SeqsUpTo(SomePaths, MaxPaths) }

GenIdle ==
    /\ req = DefaultReq
    /\ host = FullHost
    /\ plan = <<>>
    /\ opts = <<>>
    /\ genRet = [name |-> "none", opts |-> <<>>, err |-> NilErr]
    /\ pipePc = "idle"
    /\ s = DefaultSpec
    /\ base = DefaultSpec
    /\ applied = <<>>
    /\ applyErr = NilErr
    /\ cdiCalls = <<>>
    /\ cdiEnv = [refreshOK |-> TRUE, injectOK |-> TRUE]
    /\ cdiAdded = NoEdits

\* the assembly starts: nothing generated, nothing applied
GenStart(p) ==
    /\ plan = p
    /\ opts = <<>>
    /\ genRet = [name |-> "none", opts |-> <<>>, err |-> NilErr]
    /\ pipePc = "generate"
    /\ s = base
    /\ applied = <<>>
    /\ applyErr = NilErr
    /\ cdiCalls = <<>>
    /\ cdiEnv = [refreshOK |-> TRUE, injectOK |-> TRUE]
    /\ cdiAdded = NoEdits

\* one generator on its own
InitMountGen ==
    /\ req = DefaultReq
    /\ host = FullHost
    /\ base \in {DefaultSpec, [DefaultSpec EXCEPT !.Mounts = <<>>]}
    /\ GenStart(<<"mount">>)

InitSecurityGen ==
    /\ \E md \in SecurityModes, pr \in Profiles, sl \in BOOLEAN :
          req = [DefaultReq EXCEPT !.mode = md, !.apparmorProfile = pr, !.selinuxB = sl]
    /\ host \in Hosts
    /\ base = DefaultSpec
    /\ GenStart(<<"security">>)

InitProcessGen ==
    /\ \E pm \in ProcessModes : req = [DefaultReq EXCEPT !.processMode = pm]
    /\ host = FullHost
    /\ base \in ArbitrarySpecs
    /\ GenStart(<<"process">>)

InitIDmapGen ==
    /\ \E im \in {NilIdmap, SomeIdmap} : req = [DefaultReq EXCEPT !.idmap = im]
    /\ host = FullHost
    /\ base = DefaultSpec
    /\ GenStart(<<"idmap">>)

InitRlimitGen ==
    /\ \E ul \in SeqsUpTo(SomeUlimits \cup {NilUlimit}, MaxUlimits) :
          req = [DefaultReq EXCEPT !.ulimits = ul]
    /\ host = FullHost
    /\ base \in {DefaultSpec, [DefaultSpec EXCEPT !.Rlimits = <<>>]}
    /\ GenStart(<<"rlimit">>)

InitCDIGen ==
    /\ \E dv \in SeqsUpTo(Devices, MaxDevs) : req = [DefaultReq EXCEPT !.devs = dv]
    /\ host = FullHost
    /\ base = DefaultSpec
    /\ GenStart(<<"cdi">>)

\* the whole assembly, in the orchestrator's order
PipeUlimits == { <<>>, <<NilUlimit, Ulimit("nofile", 1024, 2048)>> }
PipeDevs == { <<>>, <<"vendor.com/gpu=0">>, <<"vendor.com/net=1", "vendor.com/gpu=0">> }
InitPipeline ==
    /\ \E md \in SecurityModes, pr \in Profiles, sl \in BOOLEAN,
          pm \in ProcessModes, im \in {NilIdmap, SomeIdmap},
          ul \in PipeUlimits, dv \in PipeDevs :
          req = [DefaultReq EXCEPT !.mode = md, !.apparmorProfile = pr,
                                   !.selinuxB = sl, !.processMode = pm,
                                   !.idmap = im, !.ulimits = ul, !.devs = dv]
    /\ host \in Hosts
    /\ base = DefaultSpec
    /\ GenStart(PipelinePlan)

(***************************************************************************)
(* BuildOp.Exec: the nested build operation                                *)
(***************************************************************************)

\* inputs an Exec call may be given at most
MaxInputs == 2

\* b.op.Builder: pb.LLBBuilder, or any other builder
Builders == {"LLBBuilder", "other"}
\* what inp.Sys() may be: a *worker.WorkerRef, or anything else
SysKinds == {"WorkerRef", "other"}
\* llbDef.Input, a signed index
InputIndexes == -1 .. MaxInputs

NilLm == "nil"
LocalMounter == "lm"

ErrBuilder == <<"only LLB builder is currently allowed">>
ErrNoDef == <<"no llb definition input found">>
ErrIndex(i) == <<"invalid index", i>>
ErrReference == <<"invalid reference for build">>
ErrExec(what) == <<"exec", what>>

ExecIdle ==
    /\ execPc = "idle"
    /\ bop = [Builder |-> "LLBBuilder", hasDef |-> FALSE, Input |-> 0]
    /\ inputs = <<>>
    /\ lm = NilLm
    /\ f = FALSE
    /\ retErr = NilErr
    /\ outputs = <<>>
    /\ indexed = <<>>
    /\ refMounts = 0
    /\ lmMounted = 0
    /\ unmounts = <<>>
    /\ fOpens = 0
    /\ fCloses = 0
    /\ solves = 0

\* Exec is called with an operation and a list of inputs
ExecInit ==
    /\ execPc = "validate"
    /\ bop \in [Builder : Builders, hasDef : BOOLEAN, Input : InputIndexes]
    /\ inputs \in SeqsUpTo(SysKinds, MaxInputs)
    /\ lm = NilLm
    /\ f = FALSE
    /\ retErr = NilErr
    /\ outputs = <<>>
    /\ indexed = <<>>
    /\ refMounts = 0
    /\ lmMounted = 0
    /\ unmounts = <<>>
    /\ fOpens = 0
    /\ fCloses = 0
    /\ solves = 0

\* return nil, err before the deferred function is registered
ExecReturnEarly(err) ==
    /\ retErr' = err
    /\ execPc' = "done"

\* return nil, err after it: the deferred function runs next
ExecReturn(err) ==
    /\ retErr' = err
    /\ execPc' = "deferred"

\* the checks of the request up to the type assertion on inputs[i]
ExecValidate ==
    /\ execPc = "validate"
    /\ IF bop.Builder # "LLBBuilder"
       THEN ExecReturnEarly(ErrBuilder) /\ UNCHANGED indexed
       ELSE IF ~bop.hasDef
       THEN ExecReturnEarly(ErrNoDef) /\ UNCHANGED indexed
       ELSE LET i == bop.Input
            IN  IF i >= Len(inputs)
                THEN ExecReturnEarly(ErrIndex(i)) /\ UNCHANGED indexed
                ELSE \* inp := inputs[i]
                     /\ indexed' = Append(indexed, i)
                     /\ IF i < 0
                        THEN \* index out of range: the Go runtime panics
                             /\ execPc' = "panicked"
                             /\ UNCHANGED retErr
                        ELSE IF inputs[i + 1] # "WorkerRef"
                        THEN ExecReturnEarly(ErrReference)
                        ELSE /\ execPc' = "refmount"
                             /\ UNCHANGED retErr
    /\ UNCHANGED <<bop, inputs, lm, f, outputs, refMounts, lmMounted, unmounts,
                   fOpens, fCloses, solves>>

\* mount, err := ref.ImmutableRef.Mount(ctx, true, g)
ExecRefMount ==
    /\ execPc = "refmount"
    /\ refMounts' = refMounts + 1
    /\ \/ ExecReturnEarly(ErrExec("refmount"))
       \/ execPc' = "lmmount" /\ UNCHANGED retErr
    /\ UNCHANGED <<bop, inputs, lm, f, outputs, indexed, lmMounted, unmounts,
                   fOpens, fCloses, solves>>

\* lm := snapshot.LocalMounter(mount); root, err := lm.Mount(); defer ...
ExecLmMount ==
    /\ execPc = "lmmount"
    /\ lm' = LocalMounter
    /\ \/ ExecReturnEarly(ErrExec("lmmount")) /\ UNCHANGED lmMounted
       \/ /\ lmMounted' = lmMounted + 1
          /\ execPc' = "rootpath"
          /\ UNCHANGED retErr
    /\ UNCHANGED <<bop, inputs, f, outputs, indexed, refMounts, unmounts,
                   fOpens, fCloses, solves>>

\* newfn, err := fs.RootPath(root, fn)
ExecRootPath ==
    /\ execPc = "rootpath"
    /\ \/ ExecReturn(ErrExec("rootpath"))
       \/ execPc' = "open" /\ UNCHANGED retErr
    /\ UNCHANGED <<bop, inputs, lm, f, outputs, indexed, refMounts, lmMounted,
                   unmounts, fOpens, fCloses, solves>>

\* f, err := os.Open(newfn)
ExecOpen ==
    /\ execPc = "open"
    /\ \/ ExecReturn(ErrExec("open")) /\ UNCHANGED <<f, fOpens>>
       \/ /\ f' = TRUE
          /\ fOpens' = fOpens + 1
          /\ execPc' = "read"
          /\ UNCHANGED retErr
    /\ UNCHANGED <<bop, inputs, lm, outputs, indexed, refMounts, lmMounted,
                   unmounts, fCloses, solves>>

\* lm = nil
LmAfterUnmount == NilLm

\* def, err := llb.ReadFrom(f); f.Close(); lm.Unmount(); lm = nil
ExecRead ==
    /\ execPc = "read"
    /\ f' = FALSE
    /\ fCloses' = fCloses + 1
    /\ \/ ExecReturn(ErrExec("read")) /\ UNCHANGED <<lm, unmounts>>
       \/ /\ unmounts' = Append(unmounts, "read")
          /\ lm' = LmAfterUnmount
          /\ execPc' = "solve"
          /\ UNCHANGED retErr
    /\ UNCHANGED <<bop, inputs, outputs, indexed, refMounts, lmMounted, fOpens,
                   solves>>

\* newRes, err := b.b.Solve(...)
ExecSolve ==
    /\ execPc = "solve"
    /\ solves' = solves + 1
    /\ \/ ExecReturn(ErrExec("solve"))
       \/ execPc' = "result" /\ UNCHANGED retErr
    /\ UNCHANGED <<bop, inputs, lm, f, outputs, indexed, refMounts, lmMounted,
                   unmounts, fOpens, fCloses>>

\* newRes.EachRef(...); r, err := newRes.Ref.Result(ctx); return
ExecResult ==
    /\ execPc = "result"
    /\ \/ ExecReturn(ErrExec("result")) /\ UNCHANGED outputs
       \/ ExecReturn(NilErr) /\ outputs' = <<"r">>
    /\ UNCHANGED <<bop, inputs, lm, f, indexed, refMounts, lmMounted, unmounts,
                   fOpens, fCloses, solves>>

\* a deferred function that unmounts on every error
DeferredUnmountsOnError(err, mounter) == err # NilErr

\* if retErr != nil && lm != nil
DeferredUnmounts(err, mounter) == err # NilErr /\ mounter # NilLm

\* the deferred function, at the return
ExecDeferred ==
    /\ execPc = "deferred"
    /\ unmounts' = IF DeferredUnmounts(retErr, lm)
                   THEN Append(unmounts, "deferred") ELSE unmounts
    /\ execPc' = "done"
    /\ UNCHANGED <<bop, inputs, lm, f, retErr, outputs, indexed, refMounts,
                   lmMounted, fOpens, fCloses, solves>>

ExecNext ==
    \/ ExecValidate /\ UNCHANGED <<subVars, probeVars, genVars>>
    \/ ExecRefMount /\ UNCHANGED <<subVars, probeVars, genVars>>
    \/ ExecLmMount /\ UNCHANGED <<subVars, probeVars, genVars>>
    \/ ExecRootPath /\ UNCHANGED <<subVars, probeVars, genVars>>
    \/ ExecOpen /\ UNCHANGED <<subVars, probeVars, genVars>>
    \/ ExecRead /\ UNCHANGED <<subVars, probeVars, genVars>>
    \/ ExecSolve /\ UNCHANGED <<subVars, probeVars, genVars>>
    \/ ExecResult /\ UNCHANGED <<subVars, probeVars, genVars>>
    \/ ExecDeferred /\ UNCHANGED <<subVars, probeVars, genVars>>

(***************************************************************************)
(* Specifications                                                          *)
(***************************************************************************)

InitSub == SubInit /\ ProbeIdle /\ GenIdle /\ ExecIdle
SpecSub == InitSub /\ [][SubNext]_vars

\* sub is straight-line code around system calls that return: every step
\* that can be taken is taken
SpecSubLive == InitSub /\ [][SubNext]_vars /\ WF_vars(SubNext)

InitProbe == ProbeInit /\ SubIdle /\ GenIdle /\ ExecIdle
SpecProbe == InitProbe /\ [][ProbeNext]_vars

\* each generator on its own, on the requests, hosts and specs above
InitGen ==
    /\ SubIdle
    /\ ProbeIdle
    /\ ExecIdle
    /\ \/ InitMountGen
       \/ InitSecurityGen
       \/ InitProcessGen
       \/ InitIDmapGen
       \/ InitRlimitGen
       \/ InitCDIGen
SpecGen == InitGen /\ [][GenNext]_vars

\* the whole assembly
InitPipe == SubIdle /\ ProbeIdle /\ ExecIdle /\ InitPipeline
SpecPipe == InitPipe /\ [][GenNext]_vars

\* one call of BuildOp.Exec
InitBuild == SubIdle /\ ProbeIdle /\ GenIdle /\ ExecInit
SpecBuild == InitBuild /\ [][ExecNext]_vars

(***************************************************************************)
(* Claims about cgroupV2NamespaceSupported()                               *)
(***************************************************************************)

\* C7: with any number of concurrent callers in any interleaving, the probe
\* body runs at most once, no call returns before that single run has
\* completed, and every call, concurrent or later, returns the same value.
C7_ProbedOnceSameValue ==
    /\ probeRuns <= 1
    /\ returned # {} => probeFinished = 1
    /\ Cardinality(returned) <= 1
    /\ \A c \in Callers : probeRet[c] # <<>> => probeRet[c] = <<supportsCgroupNS>>

\* one call has returned true while another caller, which entered Do before
\* the run had completed, is still on the slow path
C7_Witness ==
    \E c1, c2 \in Callers :
        /\ c1 # c2
        /\ probeRet[c1] = <<TRUE>>
        /\ probePc[c2] = "lock"
        /\ probeRuns = 1

\* C8: the probe reports supported exactly when both paths exist, for every
\* combination of outcomes of the two os.Stat calls (exists, not found,
\* another error).
C8_SupportedIffBothExist ==
    probeFinished >= 1
        => (supportsCgroupNS <=> (statNS = "exists" /\ statCtl = "exists"))

(***************************************************************************)
(* Claims about the generators                                             *)
(***************************************************************************)

\* x occurs in the sequence sq
InSeq(x, sq) == \E i \in DOMAIN sq : sq[i] = x

\* the security generator has been called for a sandboxed step that names an
\* AppArmor profile, on a host without AppArmor
C3_Case ==
    /\ genRet.name = "security"
    /\ req.mode = "SANDBOX"
    /\ req.apparmorProfile # ""
    /\ ~host.apparmor

\* C3: for a sandboxed step with an AppArmor profile on a host without
\* AppArmor, generateSecurityOpts returns an error and no mutators, whatever
\* the seccomp support and the SELinux flag, so that no security mutation,
\* the seccomp one included, reaches the spec.
C3_ApparmorUnsupportedFails ==
    C3_Case
        => /\ genRet.err # NilErr
           /\ genRet.opts = <<>>
           /\ opts = <<>>
           /\ pipePc = "failed"
           /\ applied = <<>>
           /\ s = base

\* the seccomp mutator had been collected when the AppArmor test failed
C3_Witness ==
    /\ C3_Case
    /\ host.seccomp
    /\ genRet.err = ErrApparmor(req.apparmorProfile)
    /\ pipePc = "failed"

\* the security generator has been called for an insecure step that asks for
\* SELinux labels, on a host where SELinux is not enabled
C4_Case ==
    /\ genRet.name = "security"
    /\ req.mode = "INSECURE"
    /\ req.selinuxB
    /\ ~host.selinux

\* C4: for an insecure step with SELinux labels requested on a host with
\* SELinux disabled, generateSecurityOpts fails with the "selinux is not
\* available" error and returns no mutators: nothing is applied to the spec.
C4_SelinuxUnavailableFails ==
    C4_Case
        => /\ genRet.err = <<"selinux is not available">>
           /\ genRet.opts = <<>>
           /\ opts = <<>>
           /\ pipePc = "failed"
           /\ applied = <<>>
           /\ s = base

C4_Witness ==
    /\ C4_Case
    /\ pipePc = "failed"
    /\ genRet.err = <<"selinux is not available">>

\* the process-mode mutators of the host PID namespace have been applied
C5_Case ==
    /\ genRet.name = "process"
    /\ req.processMode = "NoProcessSandbox"
    /\ pipePc = "done"

C6_InjectedResourcesKept ==
    /\ \A i \in DOMAIN cdiAdded.Mounts : InSeq(cdiAdded.Mounts[i], s.Mounts)
    /\ \A i \in DOMAIN cdiAdded.Env : InSeq(cdiAdded.Env[i], s.Env)
    /\ \A i \in DOMAIN cdiAdded.Hooks : InSeq(cdiAdded.Hooks[i], s.Hooks)
    /\ InSeq("withCDIDevices", applied) => applied[Len(applied)] = "withCDIDevices"

\* an assembly that ran every generator's mutators, the /proc rebind and the
\* resource limits included, and injected a mount under /proc
C6_Witness ==
    /\ pipePc = "done"
    /\ plan = <<>>
    /\ InSeq("withBoundProc", applied)
    /\ InSeq("rlimits", applied)
    /\ InSeq("WithInsecureSpec", applied)
    /\ InSeq("withCDIDevices", applied)
    /\ Len(cdiAdded.Mounts) = 2
    /\ cdiAdded.Hooks # <<>>
    /\ \E i \in DOMAIN s.Mounts : s.Mounts[i].Destination = <<"proc", "driver", "gpu">>

\* C9: an empty device list yields no mutator; a non-empty list yields one
\* mutator, which calls the registry refresh and then the injection whatever
\* the refresh answered, and fails exactly when the injection fails.
C9_RefreshThenInject ==
    genRet.name = "cdi"
        => /\ genRet.err = NilErr
           /\ req.devs = <<>> => genRet.opts = <<>> /\ applied = <<>> /\ cdiCalls = <<>>
           /\ req.devs # <<>> => Len(genRet.opts) = 1
           /\ applied # <<>> =>
                 /\ applied = <<"withCDIDevices">>
                 /\ cdiCalls = <<"Refresh", "InjectDevices">>
                 /\ cdiEnv.injectOK => applyErr = NilErr /\ pipePc = "done"
                 /\ ~cdiEnv.injectOK => applyErr # NilErr /\ pipePc = "failed"

\* the refresh failed, the injection was still made and succeeded
C9_Witness ==
    /\ genRet.name = "cdi"
    /\ applied = <<"withCDIDevices">>
    /\ ~cdiEnv.refreshOK
    /\ cdiEnv.injectOK
    /\ pipePc = "done"
    /\ Len(s.Mounts) > Len(base.Mounts)

\* the requests that are not nil, in order
C10_Valid(ulimits) == SelectSeq(ulimits, LAMBDA u : ~u.isNil)

\* the resource-limit name of a request
C10_Type(name) ==
    IF name = "nofile" THEN <<"RLIMIT_", "NOFILE">> ELSE <<"RLIMIT_", "NPROC">>

\* C10: an empty Ulimit list yields no mutator and leaves the spec's resource
\* limits as they were; a non-empty list yields one mutator, after which the
\* resource limits hold one entry per non-nil request, in request order.
C10_RlimitPerValidRequest ==
    genRet.name = "rlimit"
        => /\ genRet.err = NilErr
           /\ req.ulimits = <<>> =>
                 /\ genRet.opts = <<>>
                 /\ pipePc = "done"
                 /\ applied = <<>>
                 /\ s.Rlimits = base.Rlimits
           /\ req.ulimits # <<>> =>
                 /\ Len(genRet.opts) = 1
                 /\ pipePc = "done" =>
                       LET valid == C10_Valid(req.ulimits)
                       IN  /\ applied = <<"rlimits">>
                           /\ Len(s.Rlimits) = Len(valid)
                           /\ \A i \in DOMAIN valid :
                                 /\ s.Rlimits[i].Type = C10_Type(valid[i].Name)
                                 /\ s.Rlimits[i].Soft[2] = valid[i].Soft
                                 /\ s.Rlimits[i].Hard[2] = valid[i].Hard

\* a nil placeholder followed by a valid request gave exactly one entry
C10_Witness ==
    /\ genRet.name = "rlimit"
    /\ pipePc = "done"
    /\ Len(req.ulimits) = 2
    /\ req.ulimits[1].isNil
    /\ ~req.ulimits[2].isNil
    /\ Len(s.Rlimits) = 1
    /\ base.Rlimits # s.Rlimits

(***************************************************************************)
(* Claims about sub()                                                      *)
(***************************************************************************)

\* the call has returned
SubDone == subPc = "done"
\* open, readlink or mount (or the path computation) failed during the call
SubIOFailed == subRet.err[1] = "io"

\* C1: if the path read back through /proc/self/fd/<n> differs from the
\* computed path on every attempt (open and readlink succeeding each time),
\* the call fails with the "unable to safely resolve subpath" error after
\* exactly 10 opens, without ever performing a mount.
C1_ExhaustsAfterTenOpens ==
    (SubDone /\ mismatches = attempts)
        => /\ subRet = SubFail(ErrUnsafe(subPathArg))
           /\ opens = 10
           /\ readlinks = 10
           /\ mountCalls = 0
           /\ mounted = <<>>

C1_Witness ==
    /\ SubDone
    /\ attempts > 0
    /\ mismatches = attempts
    /\ subRet.err = ErrUnsafe(subPathArg)

\* C2: when nothing fails and the path read back equals the computed path,
\* the call succeeds on the first attempt: one open, one readlink, one
\* mount, the retry budget untouched, and a mount and a non-nil release
\* function returned.
C2_FirstAttemptSuccess ==
    (SubDone /\ mismatches = 0 /\ ~SubIOFailed)
        => /\ subRet.err = NilErr
           /\ attempts = 1
           /\ opens = 1
           /\ readlinks = 1
           /\ mountCalls = 1
           /\ Len(mounted) = 1
           /\ retries = 10
           /\ subRet.m # ZeroMount
           /\ subRet.release # NilFunc

C2_Witness ==
    /\ SubDone
    /\ mismatches = 0
    /\ ~SubIOFailed
    /\ resolved = src
    /\ subRet.err = NilErr

(***************************************************************************)
(* Claims about generateSecurityOpts: seccomp and the unspecified mode     *)
(***************************************************************************)

\* the security generator has been called for a sandboxed step that names no
\* AppArmor profile, with SELinux labels not requested or SELinux enabled
C11_Case ==
    /\ genRet.name = "security"
    /\ req.mode = "SANDBOX"
    /\ req.apparmorProfile = ""
    /\ ~(req.selinuxB /\ ~host.selinux)

\* C11: for a sandboxed step without an AppArmor profile (SELinux labels not
\* requested, or SELinux enabled), generateSecurityOpts returns no error
\* whether or not the host supports seccomp, and the default-seccomp-profile
\* mutator is in the returned list exactly when seccomp is supported.
C11_SeccompAbsenceIsNoError ==
    C11_Case
        => /\ genRet.err = NilErr
           /\ (InSeq(Mut("withDefaultProfile", <<>>), genRet.opts) <=> host.seccomp)

\* a sandboxed step went through on a host without seccomp: the returned list
\* holds the SELinux-label mutator only, and it has been applied
C11_Witness ==
    /\ C11_Case
    /\ ~host.seccomp
    /\ genRet.err = NilErr
    /\ Len(genRet.opts) = 1
    /\ pipePc = "done"

\* the security generator has been called with a mode that is neither
\* SANDBOX nor INSECURE
C12_Case ==
    /\ genRet.name = "security"
    /\ req.mode = "UNSPECIFIED"

\* C12 as stated: in the unspecified mode generateSecurityOpts returns no
\* mutators and no error, for every AppArmor profile name, every SELinux flag
\* and every host capability state.
C12_UnspecifiedNoErrorAlways ==
    C12_Case
        => /\ genRet.opts = <<>>
           /\ genRet.err = NilErr

\* C12: in the unspecified mode generateSecurityOpts returns no mutators for
\* every AppArmor profile name, every SELinux flag and every host capability
\* state, so the spec is left as it was; it returns no error unless SELinux
\* labels are requested on a host where SELinux is not enabled, and then the
\* error is "selinux is not available".
C12_UnspecifiedPassThrough ==
    C12_Case
        => /\ genRet.opts = <<>>
           /\ opts = <<>>
           /\ applied = <<>>
           /\ s = base
           /\ (genRet.err = NilErr <=> ~(req.selinuxB /\ ~host.selinux))
           /\ (genRet.err # NilErr => genRet.err = ErrSelinux /\ pipePc = "failed")
           /\ (genRet.err = NilErr => pipePc = "done")

\* the unspecified mode passed through with an AppArmor profile named and
\* SELinux labels requested, on a host without AppArmor and without seccomp
C12_Witness ==
    /\ C12_Case
    /\ req.apparmorProfile # ""
    /\ req.selinuxB
    /\ ~host.apparmor
    /\ ~host.seccomp
    /\ genRet.err = NilErr
    /\ pipePc = "done"

(***************************************************************************)
(* Claims about sub: mount source, failures, termination, descriptors      *)
(***************************************************************************)

\* C13: sub mounts only on an attempt whose re-read path equals the path
\* computed in that attempt; at the mount the source is the /proc/self/fd/<n>
\* path of the descriptor opened in that attempt, which is still open, and the
\* mounter holds that single mount entry; there is no mount of the lexically
\* computed path and no mount call after a mismatch.
C13_MountOnlyThroughOpenDescriptor ==
    /\ \A i \in DOMAIN mounted :
          LET e == mounted[i]
          IN  /\ e.reread = e.computed
              /\ e.source = FdPathOf(e.fd)
              /\ e.source # e.computed
              /\ e.fdOpen
              /\ e.attempt = Len(e.closes)
              /\ e.closes[Len(e.closes)] = 0
              /\ e.nMounts = 1
    /\ subPc \in {"mount", "release"}
          => resolved = src /\ fh.open /\ fdPath = FdPathOf(fh.fd)
    /\ mountCalls > 0 => resolved = src /\ mountCalls = 1
    /\ lmMounts # <<>> => Len(lmMounts) = 1 /\ lmMounts[1].Source = fdPath

\* the mount has just been made, on the third attempt, after two mismatches,
\* and the descriptor is still open
C13_Witness ==
    /\ subPc = "release"
    /\ Len(mounted) = 1
    /\ mounted[1].attempt = 3
    /\ mismatches = 2
    /\ fh.open

\* sub has an I/O error of open or readlink as its result
C14_OpenOrReadlinkFailed ==
    subRet.err \in {ErrIO("open"), ErrIO("readlink")}

\* C14: a failure to open the computed path or to read back the descriptor's
\* path ends the call at once with that I/O error: no further attempt, no
\* retry consumed by the failure, no mount; the error differs from the
\* race-budget error, which is returned only when the re-read path mismatched
\* on the attempt that exhausted the budget.
C14_IOFailureEndsCall ==
    /\ C14_OpenOrReadlinkFailed
          => /\ SubDone
             /\ subRet = SubFail(subRet.err)
             /\ subRet.err # ErrUnsafe(subPathArg)
             /\ attempts = mismatches + 1
             /\ opens = attempts
             /\ readlinks = IF subRet.err = ErrIO("open") THEN opens - 1 ELSE opens
             /\ retries = InitialRetries - mismatches
             /\ retries > 0
             /\ mountCalls = 0
             /\ mounted = <<>>
    /\ subRet.err = ErrUnsafe(subPathArg)
          => /\ SubDone
             /\ resolved # src
             /\ retries = 0
             /\ readlinks = attempts
             /\ mismatches = attempts

\* the readlink failed on the fourth attempt, after three mismatches
C14_Witness ==
    /\ SubDone
    /\ subRet.err = ErrIO("readlink")
    /\ attempts = 4
    /\ retries = InitialRetries - 3

\* sub has returned without any I/O failure after fewer than ten mismatches
C15_MatchedInTime ==
    /\ SubDone
    /\ ~SubIOFailed
    /\ mismatches < InitialRetries

\* C15: sub always terminates: whatever the outcomes of its system calls it
\* returns, after at most 10 open attempts, and it succeeds whenever an
\* attempt among the first 10 matches with its open, readlink and mount
\* succeeding, all earlier attempts having been mismatches.
C15_TerminatesWithinBudget ==
    /\ <>SubDone
    /\ [](opens <= InitialRetries /\ attempts <= InitialRetries)
    /\ [](C15_MatchedInTime
            => /\ subRet.err = NilErr
               /\ attempts = mismatches + 1
               /\ Len(mounted) = 1)

\* sub succeeded on its tenth attempt, after nine mismatches
C15_Witness ==
    /\ SubDone
    /\ subRet.err = NilErr
    /\ opens = InitialRetries
    /\ mismatches = InitialRetries - 1

\* C17: every descriptor sub opens is closed exactly once before it returns,
\* on every path; at most one descriptor is open at a time; a descriptor is
\* never closed before the mount that uses its /proc/self/fd path completed.
C17_DescriptorsClosedOnce ==
    /\ \A i \in DOMAIN fhCloses :
          fhCloses[i] = IF i < Len(fhCloses) \/ ~fh.open THEN 1 ELSE 0
    /\ fh.open => subPc \in {"readlink", "mount", "release"}
    /\ SubDone => ~fh.open /\ \A i \in DOMAIN fhCloses : fhCloses[i] = 1
    /\ Len(fhCloses) = IF subPc \in {"rootpath", "open"} THEN opens
                       ELSE IF subRet.err = ErrIO("open") THEN opens - 1
                       ELSE opens
    /\ \A i \in DOMAIN mounted :
          mounted[i].fdOpen /\ mounted[i].closes[Len(mounted[i].closes)] = 0

\* three descriptors were opened and each closed once: two after a mismatch,
\* the third after its mount
C17_Witness ==
    /\ SubDone
    /\ subRet.err = NilErr
    /\ fhCloses = <<1, 1, 1>>

\* C18: sub returns a release function exactly when it succeeds; then the
\* returned mount's source is the mount point made by the forced remount, not
\* the descriptor path, and release unmounts exactly that mount; on every
\* failure, a failed mount included, it returns the zero mount and a nil
\* release, and nothing is left mounted.
C18_ReleaseIffSuccess ==
    SubDone
        => /\ subRet.release # NilFunc <=> subRet.err = NilErr
           /\ subRet.err = NilErr
                 => /\ Len(mounted) = 1
                    /\ subRet.m.Source = mounted[1].target
                    /\ subRet.m.Source \in MountPoints
                    /\ subRet.m.Source # fdPath
                    /\ subRet.release = <<"unmount", mounted[1].target>>
                    /\ subRet.m = [m EXCEPT !.Source = mounted[1].target]
           /\ subRet.err # NilErr
                 => /\ subRet.m = ZeroMount
                    /\ subRet.release = NilFunc
                    /\ mounted = <<>>

\* the mount itself failed, after the paths had matched
C18_Witness ==
    /\ SubDone
    /\ subRet.err = ErrIO("mount")
    /\ mountCalls = 1
    /\ subRet.release = NilFunc

(***************************************************************************)
(* Claims about withBoundProc: what it leaves alone                        *)
(***************************************************************************)

\* the process-mode mutators of the host PID namespace have been applied to
\* an arbitrary spec
C16_Case ==
    /\ genRet.name = "process"
    /\ req.processMode = "NoProcessSandbox"
    /\ applied = <<"WithHostNamespace", "withBoundProc">>
    /\ pipePc = "done"

\* the indexes of the mounts of ms whose destination is /proc or under it
C16_ProcMounts(ms) == {i \in DOMAIN ms : HasPrefix(ms[i].Destination, Proc)}

\* C16: withBoundProc changes nothing outside /proc: the mounts that were not
\* at or under /proc follow the prepended /proc mount in their original
\* order, the masked and read-only paths not under /proc stay in order,
\* exactly one mount has a /proc destination afterwards however many had
\* before, and a second application changes nothing.
C16_OutsideProcUntouched ==
    C16_Case
        => /\ Len(s.Mounts) >= 1
           /\ Tail(s.Mounts)
                = SelectSeq(base.Mounts, LAMBDA mt : ~HasPrefix(mt.Destination, Proc))
           /\ s.MaskedPaths
                = SelectSeq(base.MaskedPaths, LAMBDA q : ~HasPrefix(q, Proc))
           /\ s.ReadonlyPaths
                = SelectSeq(base.ReadonlyPaths, LAMBDA q : ~HasPrefix(q, Proc))
           /\ C16_ProcMounts(s.Mounts) = {1}
           /\ WithBoundProc(s) = s
           /\ [s EXCEPT !.Mounts = base.Mounts,
                        !.MaskedPaths = base.MaskedPaths,
                        !.ReadonlyPaths = base.ReadonlyPaths,
                        !.Namespaces = base.Namespaces] = base

\* the spec had two mounts at or under /proc and two elsewhere (one of them
\* at /procfs, which only looks like /proc), and paths under /proc and outside
C16_Witness ==
    /\ C16_Case
    /\ Cardinality(C16_ProcMounts(base.Mounts)) = 2
    /\ Len(s.Mounts) = 2
    /\ s.Mounts[2].Destination = <<"procfs">>
    /\ Len(base.MaskedPaths) = 2
    /\ Len(s.MaskedPaths) = 1

(***************************************************************************)
(* Claims about BuildOp.Exec                                               *)
(***************************************************************************)

\* the errors of the steps between the local mount and the parsed definition
C19_ReadErrors == {ErrExec("rootpath"), ErrExec("open"), ErrExec("read")}

\* C19: once Exec's local mount succeeded it is unmounted exactly once on
\* every path: by the deferred function when path resolution, the open or
\* the read fails, and before Solve otherwise, an error of Solve or of the
\* result fetch never unmounting again; the definition file is closed once on
\* the read-error path and on the read-success path.
C19_UnmountedExactlyOnce ==
    /\ Len(unmounts) <= lmMounted
    /\ lmMounted <= 1
    /\ execPc \in {"solve", "result"}
          => unmounts = <<"read">> /\ lm = NilLm /\ solves <= 1
    /\ solves > 0 => unmounts # <<>> /\ unmounts[1] = "read"
    /\ execPc = "done" /\ lmMounted = 1
          => /\ Len(unmounts) = 1
             /\ unmounts[1] = IF retErr \in C19_ReadErrors THEN "deferred" ELSE "read"
    /\ fCloses = IF f THEN fOpens - 1 ELSE fOpens
    /\ fOpens <= 1
    /\ f => execPc = "read"

\* Solve failed after the definition had been read: the mount was released
\* before Solve and the deferred function left it alone
C19_Witness ==
    /\ execPc = "done"
    /\ retErr = ErrExec("solve")
    /\ lmMounted = 1
    /\ unmounts = <<"read">>
    /\ fOpens = 1
    /\ fCloses = 1

\* the request is invalid: another builder, no LLB-definition input, or an
\* index of that input outside [0, len(inputs))
C20_Invalid ==
    \/ bop.Builder # "LLBBuilder"
    \/ ~bop.hasDef
    \/ bop.Input < 0
    \/ bop.Input >= Len(inputs)

\* C20: Exec rejects every invalid request with an error before it touches a
\* mount: another builder, a missing LLB-definition input and every index of
\* that input outside [0, len(inputs)), negative ones included, return an
\* error, and inputs is never indexed out of range.
C20_InvalidRequestsRejected ==
    /\ execPc # "validate" /\ C20_Invalid
          => /\ execPc = "done"
             /\ retErr # NilErr
             /\ refMounts = 0
             /\ lmMounted = 0
    /\ \A k \in DOMAIN indexed : indexed[k] >= 0 /\ indexed[k] < Len(inputs)

====
